---- MODULE Spec2Model ----
(***************************************************************************)
(* wyoming-glados: the session protocol handler (server/handler.py) run    *)
(* by the asyncio server started in __main__.py.                           *)
(*                                                                         *)
(* One GladosEventHandler exists per accepted connection.  All handlers    *)
(* are coroutines of one single-threaded event loop: a handler runs until  *)
(* it reaches an await (the write_event calls) and only there can another  *)
(* session's handler run.  run_tts is an ordinary synchronous call.        *)
(***************************************************************************)
EXTENDS Integers, Sequences, FiniteSets, TLC

\* ------------------------------------------------------------------ bounds
NumSessions == 2            \* concurrently connected sessions
MaxEvents == 2              \* events delivered to the server in one run
MaxSamplesPerChunk == 2     \* largest --samples-per-chunk tried
PauseFrames == 1            \* frames of one inter-sentence pause (scaled 250 ms)

Sessions == 1..NumSessions
NoSession == 0

\* ------------------------------------------------------------------- text
\* A text is a sequence of one-character strings.
Letters == {"a", "b", "c"}
Whitespace == {" ", "\n"}
Terminators == {".", "?", "!"}

\* The request texts a client sends in this model.
RequestTexts ==
    { <<>>,
      <<" ">>,
      <<"a">>,
      <<"a", "?">>,
      <<"a", "\n", "b">>,
      <<"a", ".", " ", "b">>,
      <<"a", ".", " ", "b", "?", " ", "c">> }

\* --auto-punctuation values tried (the default is ".?!").
AutoPunctuationValues == { <<>>, <<".", "?", "!">> }

\* The texts and --auto-punctuation values the normalizer is tried on.
MaxTextLen == 3
Alphabet == {"a", ".", "?", " ", "\n"}
TextsUpTo(n) == UNION {[1..m -> Alphabet] : m \in 0..n}
NormalizePunctuationValues == { <<>>, <<".">>, <<"?", ".">>, <<".", "?", "!">> }

\* --samples-per-chunk is any integer: argparse type=int, no range check.
SamplesPerChunkValues == (-1)..MaxSamplesPerChunk

RECURSIVE LStrip(_)
LStrip(t) ==
    IF t = <<>> THEN t
    ELSE IF Head(t) \in Whitespace THEN LStrip(Tail(t)) ELSE t

RECURSIVE RStrip(_)
RStrip(t) ==
    IF t = <<>> THEN t
    ELSE IF t[Len(t)] \in Whitespace THEN RStrip(SubSeq(t, 1, Len(t) - 1)) ELSE t

\* str.strip()
Strip(t) == RStrip(LStrip(t))

\* str.splitlines(): no trailing empty line, empty text gives no line.
RECURSIVE SplitLinesFrom(_, _)
SplitLinesFrom(t, cur) ==
    IF t = <<>> THEN (IF cur = <<>> THEN <<>> ELSE <<cur>>)
    ELSE IF Head(t) = "\n" THEN <<cur>> \o SplitLinesFrom(Tail(t), <<>>)
    ELSE SplitLinesFrom(Tail(t), Append(cur, Head(t)))

SplitLines(t) == SplitLinesFrom(t, <<>>)

\* " ".join(lines)
RECURSIVE JoinLines(_)
JoinLines(lines) ==
    IF lines = <<>> THEN <<>>
    ELSE IF Len(lines) = 1 THEN lines[1]
    ELSE lines[1] \o <<" ">> \o JoinLines(Tail(lines))

\* str.endswith(c) for a one-character c
EndsWith(t, c) == t # <<>> /\ t[Len(t)] = c

\* A normalizer that looks for the default terminator only.
NormalizeFirstOnly(raw_text, auto_punctuation) ==
    LET text == JoinLines(SplitLines(Strip(raw_text)))
    IN  IF auto_punctuation # <<>> /\ text # <<>>
        THEN IF ~ EndsWith(text, auto_punctuation[1])
             THEN Append(text, auto_punctuation[1])
             ELSE text
        ELSE text

Normalize(raw_text, auto_punctuation) ==
    LET text == JoinLines(SplitLines(Strip(raw_text)))
    IN  IF auto_punctuation # <<>> /\ text # <<>>
        THEN IF ~ \E k \in 1..Len(auto_punctuation) : EndsWith(text, auto_punctuation[k])
             THEN Append(text, auto_punctuation[1])
             ELSE text
        ELSE text

\* nltk sent_tokenize at its boundary: a sentence ends at a terminator that is
\* followed by whitespace; order is kept, the separating whitespace is dropped,
\* empty text gives no sentence.
RECURSIVE SentencesFrom(_, _)
SentencesFrom(t, cur) ==
    IF t = <<>> THEN (IF cur = <<>> THEN <<>> ELSE <<cur>>)
    ELSE IF Head(t) \in Terminators /\ Len(t) >= 2 /\ t[2] \in Whitespace
         THEN <<Append(cur, Head(t))>> \o SentencesFrom(LStrip(Tail(t)), <<>>)
         ELSE SentencesFrom(Tail(t), Append(cur, Head(t)))

sent_tokenize(text) == SentencesFrom(LStrip(text), <<>>)

\* ------------------------------------------------------------------ audio
\* An AudioSegment: frame_rate, sample_width, channels and raw_data (bytes).
EngineFormat == [rate |-> 22050, width |-> 2, channels |-> 1]
SilentFormat == [rate |-> 11025, width |-> 2, channels |-> 1]

CharCode(c) ==
    CASE c = "a" -> 1 [] c = "b" -> 2 [] c = "c" -> 3 [] OTHER -> 0

Repeat(b, n) == [k \in 1..n |-> b]

\* AudioSegment.silent(duration): zero bytes, pydub's default format.
Silent(frames) ==
    [fmt |-> SilentFormat,
     raw_data |-> Repeat(0, frames * SilentFormat.width * SilentFormat.channels)]

\* The engine's waveform for one sentence: one frame per letter, every byte of
\* the frame holding the letter's code (never 0, so speech differs from silence).
RECURSIVE VoiceBytes(_)
VoiceBytes(sentence) ==
    IF sentence = <<>> THEN <<>>
    ELSE (IF Head(sentence) \in Letters
          THEN Repeat(CharCode(Head(sentence)), EngineFormat.width * EngineFormat.channels)
          ELSE <<>>) \o VoiceBytes(Tail(sentence))

run_tts(sentence) == [fmt |-> EngineFormat, raw_data |-> VoiceBytes(sentence)]

Max(a, b) == IF a >= b THEN a ELSE b

\* AudioSegment.__add__: both sides are brought to the larger rate, width and
\* channel count, then the bytes are concatenated.  Resampling keeps the
\* duration; silence stays silence.
Resample(seg, fmt) ==
    IF seg.fmt = fmt THEN seg
    ELSE [fmt |-> fmt,
          raw_data |-> Repeat(0, (Len(seg.raw_data) \div (seg.fmt.width * seg.fmt.channels))
                                  * fmt.width * fmt.channels)]

AudioAdd(x, y) ==
    LET fmt == [rate |-> Max(x.fmt.rate, y.fmt.rate),
                width |-> Max(x.fmt.width, y.fmt.width),
                channels |-> Max(x.fmt.channels, y.fmt.channels)]
    IN  [fmt |-> fmt,
         raw_data |-> Resample(x, fmt).raw_data \o Resample(y, fmt).raw_data]

\* handle_tts_request line 58: pause = AudioSegment.silent(duration=delay)
Pause == Silent(PauseFrames)

\* A splice that puts the pause after the new sentence instead of before it.
SplicePauseAfter(audio, new_line) == AudioAdd(AudioAdd(audio, new_line), Pause)

\* handle_tts_request line 62: audio += pause + new_line
Splice(audio, new_line) == AudioAdd(audio, AudioAdd(Pause, new_line))

\* ----------------------------------------------------------------- framer
\* Python's // (floor division), b # 0.
PyFloorDiv(a, b) == IF b > 0 THEN a \div b ELSE (0 - a) \div (0 - b)

\* Python's seq[lo:hi] on 0-based indices, negative indices counted from the end.
PySlice(seq, lo, hi) ==
    LET n == Len(seq)
        clamp(k) == IF k < 0 THEN Max(k + n, 0) ELSE IF k > n THEN n ELSE k
        l == clamp(lo)
        h == clamp(hi)
    IN  IF l >= h THEN <<>> ELSE SubSeq(seq, l + 1, h)

\* handle_event lines 124-125
BytesPerChunk(fmt, samples_per_chunk) == fmt.width * fmt.channels * samples_per_chunk

\* A chunk count that rounds down: the short last chunk is lost.
NumChunksFloor(len, bytes_per_chunk) == PyFloorDiv(len, bytes_per_chunk)

\* handle_event line 126 (ceiling division); raises ZeroDivisionError when
\* bytes_per_chunk = 0, which the callers test first.
NumChunks(len, bytes_per_chunk) ==
    PyFloorDiv(len + bytes_per_chunk - 1, bytes_per_chunk)

\* handle_event lines 130-131
ChunkAt(audio_bytes, i, bytes_per_chunk) ==
    PySlice(audio_bytes, i * bytes_per_chunk, i * bytes_per_chunk + bytes_per_chunk)

\* ------------------------------------------------------------------ state
VARIABLES
    cli_args,    \* argparse.Namespace: auto_punctuation, samples_per_chunk
    loop,        \* the session whose handler occupies the event-loop thread
    pc,          \* per session: where its handler stands
    nreq,        \* per session: events read from its connection so far
    event,       \* per session: the event handle_event was last called with
    text,        \* per session: handle_event's normalized text
    sentences,   \* per session: handle_tts_request's sentences
    k,           \* per session: index of the sentence being synthesized
    audio,       \* per session: the AudioSegment built so far
    i,           \* per session: the framer's chunk index
    calls,       \* per session: the sentences passed to run_tts for this request
    caught,      \* per session: the exception handle_event caught for this request
    result,      \* per session: how the latest handle_event call ended
    conn,        \* per session: the events written to its connection
    outcomes,    \* per session: how each finished handle_event call ended
    delivered,   \* events delivered to the server so far
    wyoming_info_event,  \* per session: the handler's Info event (self.wyoming_info_event)
    transport,    \* per session: "open" or "closed" (the client's end of the connection)
    base_url,    \* download: the --url template
    model_url,   \* download: ensure_model_exists' local of that name
    model,       \* download: index of the model file the loop is at
    disk,        \* download: per model file, what the model directory holds
    disk0,       \* download: the model directory when the run started
    ops,         \* download: per model file, the unlinks and fetches made
    dl           \* download: where ensure_model_exists stands

vars == <<cli_args, loop, pc, nreq, event, text, sentences, k, audio, i, calls,
          caught, result, conn, outcomes, delivered, wyoming_info_event, transport,
          base_url, model_url, model, disk, disk0, ops, dl>>

\* What the server never touches: the state of the model downloader.
download_frame == <<base_url, model_url, model, disk, disk0, ops, dl>>

\* What the downloader never touches: the state of the server.
server_frame == <<cli_args, loop, pc, nreq, event, text, sentences, k, audio, i,
                  calls, caught, result, conn, outcomes, delivered,
                  wyoming_info_event, transport>>

\* ------------------------------------------------------------ model files
\* download.py lines 57-66 list eight files; the loop treats each alike.
NumModelFiles == 2

ModelFiles == 1..NumModelFiles

Filenames ==
    <<"glados-new.pt", "glados.pt", "en_us_cmudict_ipa_forward.pt",
      "emb/glados_p2.pt", "emb/glados_p1.pt", "vocoder-gpu.pt",
      "vocoder-cpu-hq.pt", "vocoder-cpu-lq.pt">>

\* is_valid_file line 38: a file below this size is invalid.
MinFileSize == 1024

\* What the model directory can hold for one file: nothing, or a file with a
\* size and an MD5 digest (the listed one for that file, or another).
Absent == [exists |-> FALSE]

FileSizes == {MinFileSize - 1, MinFileSize}

Digests == {"expected", "other"}

Contents == [exists : {TRUE}, size : FileSizes, md5 : Digests]

DiskValues == Contents \cup {Absent}

\* is_valid_file, lines 35-51.
is_valid_file(file) ==
    IF ~file.exists THEN FALSE
    ELSE IF file.size < MinFileSize THEN FALSE
    ELSE file.md5 = "expected"

\* A --url template is a sequence of literal parts and replacement fields.
Lit(str) == [lit |-> str]

Field(name) == [field |-> name]

IsField(part) == "field" \in DOMAIN part

DEFAULT_URL == <<Lit("https://github.com/nalf3in/glados-tts/releases/download/v0.1.0-alpha/"),
                 Field("file")>>

\* --url is any string: with the field the code fills in, with another
\* field, or with none.
UrlTemplates ==
    { DEFAULT_URL,
      <<Lit("http://mirror/"), Field("name")>>,
      <<Lit("http://mirror/model.pt")>> }

\* base_url.format(file=model_file), line 83: raises KeyError on a field
\* other than "file".
FormatRaises(template) ==
    \E j \in DOMAIN template : IsField(template[j]) /\ template[j].field # "file"

Format(template, model_file) ==
    [j \in DOMAIN template |->
        IF IsField(template[j]) THEN model_file ELSE template[j].lit]

\* A local that no assignment has bound yet.
Unbound == <<>>

\* The server runs with the models in place and no downloader running.
ModelsInstalled ==
    /\ base_url = DEFAULT_URL
    /\ model_url = Unbound
    /\ model = NumModelFiles + 1
    /\ disk = [f \in ModelFiles |-> [exists |-> TRUE, size |-> MinFileSize, md5 |-> "expected"]]
    /\ disk0 = disk
    /\ ops = [f \in ModelFiles |-> <<>>]
    /\ dl = "returned"

\* What no step of handle_event writes.
handler_frame == <<wyoming_info_event, transport>>

\* __main__ lines 72-98: the capability descriptor, built once at start.
WyomingInfo ==
    [tts |-> <<[name |-> "glados-tts",
                description |-> "A GLaDOS TTS using Forward Tacotron and HiFiGAN.",
                attribution |-> "R2D2FISH",
                installed |-> TRUE,
                version |-> 2,
                voices |-> <<[name |-> "default",
                              description |-> "Default GLaDOS voice",
                              attribution |-> "R2D2FISH",
                              installed |-> TRUE,
                              languages |-> <<"en">>,
                              version |-> 2]>>]>>]

\* The events a client sends: Describe, Synthesize(text), and any other type.
NoEvent == [type |-> "none"]
DescribeEvent == [type |-> "describe"]
OtherEvent == [type |-> "transcribe"]
SynthesizeEvent(raw_text) == [type |-> "synthesize", text |-> raw_text]

NoException == [type |-> "none"]
\* What a failing run_tts raises.
EngineException == [type |-> "Exception", origin |-> "run_tts"]

NoAudio == [fmt |-> SilentFormat, raw_data |-> <<>>]

\* wyoming_info.event() as written for a session's req-th event.
Info(req) == [type |-> "info", req |-> req, data |-> WyomingInfo]
AudioStart(req, fmt) ==
    [type |-> "audio-start", req |-> req,
     rate |-> fmt.rate, width |-> fmt.width, channels |-> fmt.channels]
AudioChunk(req, fmt, chunk) ==
    [type |-> "audio-chunk", req |-> req,
     rate |-> fmt.rate, width |-> fmt.width, channels |-> fmt.channels,
     audio |-> chunk]
AudioStop(req) == [type |-> "audio-stop", req |-> req]

\* Every accepted connection has its handler, constructed and awaiting an event.
HandlersReady ==
    /\ loop = NoSession
    /\ pc = [s \in Sessions |-> "ready"]
    /\ nreq = [s \in Sessions |-> 0]
    /\ event = [s \in Sessions |-> NoEvent]
    /\ text = [s \in Sessions |-> <<>>]
    /\ sentences = [s \in Sessions |-> <<>>]
    /\ k = [s \in Sessions |-> 0]
    /\ audio = [s \in Sessions |-> NoAudio]
    /\ i = [s \in Sessions |-> 0]
    /\ calls = [s \in Sessions |-> <<>>]
    /\ caught = [s \in Sessions |-> NoException]
    /\ result = [s \in Sessions |-> "none"]
    /\ conn = [s \in Sessions |-> <<>>]
    /\ outcomes = [s \in Sessions |-> <<>>]
    /\ delivered = 0
    /\ wyoming_info_event = [s \in Sessions |-> WyomingInfo]
    /\ transport = [s \in Sessions |-> "open"]

Init ==
    /\ cli_args \in [auto_punctuation : AutoPunctuationValues,
                     samples_per_chunk : SamplesPerChunkValues]
    /\ HandlersReady
    /\ ModelsInstalled

\* A run loop that takes the next event while the previous response is still
\* being written (a handler started per event instead of awaited).
CanReadWhileWriting(s) ==
    /\ loop = NoSession
    /\ pc[s] \in {"ready", "chunks"}
    /\ transport[s] = "open"
    /\ delivered < MaxEvents

\* The session's run loop awaits the next event only after handle_event has
\* returned, and a suspended coroutine resumes only when the loop thread is free.
CanRead(s) ==
    /\ loop = NoSession
    /\ pc[s] = "ready"
    /\ transport[s] = "open"
    /\ delivered < MaxEvents

\* The locals of a fresh handle_event call.
Fresh(s, ev) ==
    /\ event' = [event EXCEPT ![s] = ev]
    /\ nreq' = [nreq EXCEPT ![s] = @ + 1]
    /\ delivered' = delivered + 1
    /\ k' = [k EXCEPT ![s] = 0]
    /\ i' = [i EXCEPT ![s] = 0]
    /\ calls' = [calls EXCEPT ![s] = <<>>]
    /\ caught' = [caught EXCEPT ![s] = NoException]

\* A Describe answered with the Info event written twice.
DescribeTwice(s) ==
    /\ CanRead(s)
    /\ Fresh(s, DescribeEvent)
    /\ outcomes' = [outcomes EXCEPT ![s] = Append(@, "info")]
    /\ conn' = [conn EXCEPT ![s] = @ \o <<Info(nreq[s] + 1), Info(nreq[s] + 1)>>]
    /\ result' = [result EXCEPT ![s] = "true"]
    /\ text' = [text EXCEPT ![s] = <<>>]
    /\ sentences' = [sentences EXCEPT ![s] = <<>>]
    /\ audio' = [audio EXCEPT ![s] = NoAudio]
    /\ UNCHANGED <<handler_frame, download_frame>>
    /\ UNCHANGED <<cli_args, loop, pc>>

\* A Describe that strips the voices from the handler's Info event once sent.
DescribeConsumesInfo(s) ==
    /\ CanRead(s)
    /\ Fresh(s, DescribeEvent)
    /\ outcomes' = [outcomes EXCEPT ![s] = Append(@, "info")]
    /\ conn' = [conn EXCEPT ![s] =
                   Append(@, [type |-> "info", req |-> nreq[s] + 1,
                              data |-> wyoming_info_event[s]])]
    /\ wyoming_info_event' = [wyoming_info_event EXCEPT ![s] = [tts |-> <<>>]]
    /\ result' = [result EXCEPT ![s] = "true"]
    /\ text' = [text EXCEPT ![s] = <<>>]
    /\ sentences' = [sentences EXCEPT ![s] = <<>>]
    /\ audio' = [audio EXCEPT ![s] = NoAudio]
    /\ UNCHANGED <<cli_args, loop, pc, transport>>
    /\ UNCHANGED download_frame

\* handle_event lines 75-78
Describe(s) ==
    /\ CanRead(s)
    /\ Fresh(s, DescribeEvent)
    /\ outcomes' = [outcomes EXCEPT ![s] = Append(@, "info")]
    /\ conn' = [conn EXCEPT ![s] =
                   Append(@, [type |-> "info", req |-> nreq[s] + 1,
                              data |-> wyoming_info_event[s]])]
    /\ result' = [result EXCEPT ![s] = "true"]
    /\ text' = [text EXCEPT ![s] = <<>>]
    /\ sentences' = [sentences EXCEPT ![s] = <<>>]
    /\ audio' = [audio EXCEPT ![s] = NoAudio]
    /\ UNCHANGED <<handler_frame, download_frame>>
    /\ UNCHANGED <<cli_args, loop, pc>>

\* An unrecognized event answered by returning False: the session is closed.
UnexpectedCloses(s) ==
    /\ CanRead(s)
    /\ Fresh(s, OtherEvent)
    /\ outcomes' = [outcomes EXCEPT ![s] = Append(@, "ignored")]
    /\ result' = [result EXCEPT ![s] = "false"]
    /\ pc' = [pc EXCEPT ![s] = "closed"]
    /\ text' = [text EXCEPT ![s] = <<>>]
    /\ sentences' = [sentences EXCEPT ![s] = <<>>]
    /\ audio' = [audio EXCEPT ![s] = NoAudio]
    /\ UNCHANGED <<handler_frame, download_frame>>
    /\ UNCHANGED <<cli_args, loop, conn>>

\* handle_event lines 80-82
Unexpected(s) ==
    /\ CanRead(s)
    /\ Fresh(s, OtherEvent)
    /\ outcomes' = [outcomes EXCEPT ![s] = Append(@, "ignored")]
    /\ result' = [result EXCEPT ![s] = "true"]
    /\ text' = [text EXCEPT ![s] = <<>>]
    /\ sentences' = [sentences EXCEPT ![s] = <<>>]
    /\ audio' = [audio EXCEPT ![s] = NoAudio]
    /\ UNCHANGED <<handler_frame, download_frame>>
    /\ UNCHANGED <<cli_args, loop, pc, conn>>

\* handle_event lines 84-108 and handle_tts_request lines 53-55, up to the
\* first engine call or, when there is nothing to synthesize, to line 110.
Synthesize(s, raw_text) ==
    /\ CanRead(s)
    /\ Fresh(s, SynthesizeEvent(raw_text))
    /\ LET t == Normalize(raw_text, cli_args.auto_punctuation)
           sents == IF t # <<>> THEN sent_tokenize(t) ELSE <<>>
       IN  /\ text' = [text EXCEPT ![s] = t]
           /\ sentences' = [sentences EXCEPT ![s] = sents]
           /\ audio' = [audio EXCEPT ![s] = Silent(0)]
           /\ pc' = [pc EXCEPT ![s] = IF sents # <<>> THEN "tts" ELSE "start"]
    /\ loop' = s
    /\ result' = [result EXCEPT ![s] = "none"]
    /\ UNCHANGED <<handler_frame, download_frame>>
    /\ UNCHANGED <<cli_args, conn, outcomes>>

\* An engine call handed to a worker thread: the event loop is free meanwhile.
EngineCallOffloaded(s) ==
    /\ loop = s
    /\ pc[s] = "tts"
    /\ k' = [k EXCEPT ![s] = @ + 1]
    /\ calls' = [calls EXCEPT ![s] = Append(@, sentences[s][k[s] + 1])]
    /\ pc' = [pc EXCEPT ![s] = "engine"]
    /\ loop' = NoSession
    /\ UNCHANGED <<handler_frame, download_frame>>
    /\ UNCHANGED <<cli_args, nreq, event, text, sentences, audio, i, caught,
                   result, conn, outcomes, delivered>>

\* handle_tts_request lines 57 and 61: run_tts is entered, synchronously.
EngineCall(s) ==
    /\ loop = s
    /\ pc[s] = "tts"
    /\ k' = [k EXCEPT ![s] = @ + 1]
    /\ calls' = [calls EXCEPT ![s] = Append(@, sentences[s][k[s] + 1])]
    /\ pc' = [pc EXCEPT ![s] = "engine"]
    /\ UNCHANGED <<handler_frame, download_frame>>
    /\ UNCHANGED <<cli_args, loop, nreq, event, text, sentences, audio, i, caught,
                   result, conn, delivered, outcomes>>

\* handle_tts_request lines 57-64: run_tts returns a waveform.
EngineReturn(s) ==
    /\ loop = s
    /\ pc[s] = "engine"
    /\ LET new_line == run_tts(sentences[s][k[s]])
       IN  audio' = [audio EXCEPT ![s] =
                        IF k[s] = 1 THEN new_line ELSE Splice(@, new_line)]
    /\ pc' = [pc EXCEPT ![s] = IF k[s] < Len(sentences[s]) THEN "tts" ELSE "start"]
    /\ UNCHANGED <<handler_frame, download_frame>>
    /\ UNCHANGED <<cli_args, loop, nreq, event, text, sentences, k, i, calls, caught,
                   result, conn, delivered, outcomes>>

\* handle_tts_request has no except clause: what run_tts raises reaches
\* handle_event's handler unchanged.
Surfaced(exc, index) == exc

\* A failure handled per sentence: the failing sentence is skipped and the
\* request goes on with the next one.
EngineRaiseSkipsSentence(s) ==
    /\ loop = s
    /\ pc[s] = "engine"
    /\ caught' = [caught EXCEPT ![s] = EngineException]
    /\ pc' = [pc EXCEPT ![s] = IF k[s] < Len(sentences[s]) THEN "tts" ELSE "start"]
    /\ UNCHANGED <<handler_frame, download_frame>>
    /\ UNCHANGED <<cli_args, loop, nreq, event, text, sentences, k, audio, i,
                   calls, result, conn, outcomes, delivered>>

\* handle_event lines 103-106: run_tts raises, the request is dropped.
EngineRaise(s) ==
    /\ loop = s
    /\ pc[s] = "engine"
    /\ caught' = [caught EXCEPT ![s] = Surfaced(EngineException, k[s])]
    /\ result' = [result EXCEPT ![s] = "true"]
    /\ pc' = [pc EXCEPT ![s] = "ready"]
    /\ loop' = NoSession
    /\ UNCHANGED <<handler_frame, download_frame>>
    /\ UNCHANGED <<cli_args, nreq, event, text, sentences, k, audio, i, calls, conn,
                   delivered>>
    /\ outcomes' = [outcomes EXCEPT ![s] = Append(@, "dropped")]

\* handle_event lines 110-120
WriteStart(s) ==
    /\ loop = s
    /\ pc[s] = "start"
    /\ transport[s] = "open"
    /\ conn' = [conn EXCEPT ![s] = Append(@, AudioStart(nreq[s], audio[s].fmt))]
    /\ i' = [i EXCEPT ![s] = 0]
    /\ pc' = [pc EXCEPT ![s] = "chunks"]
    /\ loop' = NoSession
    /\ UNCHANGED <<handler_frame, download_frame>>
    /\ UNCHANGED <<cli_args, nreq, event, text, sentences, k, audio, calls, caught,
                   result, delivered, outcomes>>

bytes_per_chunk(s) == BytesPerChunk(audio[s].fmt, cli_args.samples_per_chunk)
num_chunks(s) == NumChunks(Len(audio[s].raw_data), bytes_per_chunk(s))

\* handle_event line 126 with bytes_per_chunk = 0: ZeroDivisionError leaves
\* handle_event, and with it the session's run loop.
ZeroDivision(s) ==
    /\ loop = NoSession
    /\ pc[s] = "chunks"
    /\ bytes_per_chunk(s) = 0
    /\ pc' = [pc EXCEPT ![s] = "crashed"]
    /\ result' = [result EXCEPT ![s] = "raised"]
    /\ UNCHANGED <<handler_frame, download_frame>>
    /\ UNCHANGED <<cli_args, loop, nreq, event, text, sentences, k, audio, i, calls,
                   caught, conn, delivered>>
    /\ outcomes' = [outcomes EXCEPT ![s] = Append(@, "raised")]

\* handle_event lines 129-139: one iteration of the chunk loop
WriteChunk(s) ==
    /\ loop = NoSession
    /\ pc[s] = "chunks"
    /\ transport[s] = "open"
    /\ bytes_per_chunk(s) # 0
    /\ i[s] < num_chunks(s)
    /\ conn' = [conn EXCEPT ![s] =
                   Append(@, AudioChunk(nreq[s], audio[s].fmt,
                                        ChunkAt(audio[s].raw_data, i[s], bytes_per_chunk(s))))]
    /\ i' = [i EXCEPT ![s] = @ + 1]
    /\ UNCHANGED <<handler_frame, download_frame>>
    /\ UNCHANGED <<cli_args, loop, pc, nreq, event, text, sentences, k, audio, calls,
                   caught, result, delivered, outcomes>>

\* A handler that returns after the last chunk without writing AudioStop.
WriteStopForgotten(s) ==
    /\ loop = NoSession
    /\ pc[s] = "chunks"
    /\ transport[s] = "open"
    /\ bytes_per_chunk(s) # 0
    /\ i[s] >= num_chunks(s)
    /\ pc' = [pc EXCEPT ![s] = "ready"]
    /\ result' = [result EXCEPT ![s] = "true"]
    /\ outcomes' = [outcomes EXCEPT ![s] = Append(@, "audio")]
    /\ UNCHANGED <<handler_frame, download_frame>>
    /\ UNCHANGED <<cli_args, loop, nreq, event, text, sentences, k, audio, i,
                   calls, caught, conn, delivered>>

\* handle_event lines 141-144
WriteStop(s) ==
    /\ loop = NoSession
    /\ pc[s] = "chunks"
    /\ transport[s] = "open"
    /\ bytes_per_chunk(s) # 0
    /\ i[s] >= num_chunks(s)
    /\ conn' = [conn EXCEPT ![s] = Append(@, AudioStop(nreq[s]))]
    /\ pc' = [pc EXCEPT ![s] = "ready"]
    /\ result' = [result EXCEPT ![s] = "true"]
    /\ UNCHANGED <<handler_frame, download_frame>>
    /\ UNCHANGED <<cli_args, loop, nreq, event, text, sentences, k, audio, i, calls,
                   caught, delivered>>
    /\ outcomes' = [outcomes EXCEPT ![s] = Append(@, "audio")]

Next ==
    \E s \in Sessions :
        \/ Describe(s)
        \/ Unexpected(s)
        \/ \E raw_text \in RequestTexts : Synthesize(s, raw_text)
        \/ EngineCall(s)
        \/ EngineReturn(s)
        \/ EngineRaise(s)
        \/ WriteStart(s)
        \/ ZeroDivision(s)
        \/ WriteChunk(s)
        \/ WriteStop(s)

Spec == Init /\ [][Next]_vars

\* ------------------------------------------------------- closing transport
\* The client closes its connection; it can do so at any moment, also while
\* the session's handler is inside the synchronous synthesis.
Disconnect(s) ==
    /\ transport[s] = "open"
    /\ pc[s] \notin {"crashed", "closed"}
    /\ transport' = [transport EXCEPT ![s] = "closed"]
    /\ UNCHANGED <<cli_args, loop, pc, nreq, event, text, sentences, k, audio, i,
                   calls, caught, result, conn, outcomes, delivered,
                   wyoming_info_event>>
    /\ UNCHANGED download_frame

\* The run loop's read sees the end of the stream: the session is over.
SessionEnds(s) ==
    /\ loop = NoSession
    /\ pc[s] = "ready"
    /\ transport[s] = "closed"
    /\ pc' = [pc EXCEPT ![s] = "closed"]
    /\ UNCHANGED <<handler_frame, download_frame>>
    /\ UNCHANGED <<cli_args, loop, nreq, event, text, sentences, k, audio, i,
                   calls, caught, result, conn, outcomes, delivered>>

\* handle_event lines 114, 132 and 141 on a closed transport: write_event
\* raises, outside the try block, and the handler ends with the session.
WriteFails(s) ==
    /\ transport[s] = "closed"
    /\ \/ pc[s] = "start" /\ loop = s
       \/ pc[s] = "chunks" /\ loop = NoSession /\ bytes_per_chunk(s) # 0
    /\ pc' = [pc EXCEPT ![s] = "closed"]
    /\ result' = [result EXCEPT ![s] = "disconnected"]
    /\ outcomes' = [outcomes EXCEPT ![s] = Append(@, "disconnected")]
    /\ loop' = NoSession
    /\ UNCHANGED <<handler_frame, download_frame>>
    /\ UNCHANGED <<cli_args, nreq, event, text, sentences, k, audio, i, calls,
                   caught, conn, delivered>>

NextClose ==
    \/ Next
    \/ \E s \in Sessions :
        \/ Disconnect(s)
        \/ SessionEnds(s)
        \/ WriteFails(s)

SpecClose == Init /\ [][NextClose]_vars

\* ------------------------------------------------------ ensure_model_exists
\* The for loop goes on to the next model file, or the function returns.
NextModel ==
    /\ model' = model + 1
    /\ dl' = IF model = NumModelFiles THEN "returned" ELSE "check"

Unlinked(f) == [disk EXCEPT ![f] = Absent]

Logged(f, op) == [ops EXCEPT ![f] = Append(@, op)]

\* Lines 72-74: the file is valid, nothing to do.
FileIsValid ==
    /\ dl = "check"
    /\ is_valid_file(disk[model])
    /\ NextModel
    /\ UNCHANGED <<base_url, model_url, disk, disk0, ops>>
    /\ UNCHANGED server_frame

\* Lines 72 and 77-79: the file is invalid; what is there is removed.
RemoveInvalid ==
    /\ dl = "check"
    /\ ~is_valid_file(disk[model])
    /\ IF disk[model].exists
       THEN disk' = Unlinked(model) /\ ops' = Logged(model, "unlink")
       ELSE UNCHANGED <<disk, ops>>
    /\ dl' = "try"
    /\ UNCHANGED <<base_url, model_url, model, disk0>>
    /\ UNCHANGED server_frame

\* Line 83, the first statement of the try block.
FormatUrl ==
    /\ dl = "try"
    /\ ~FormatRaises(base_url)
    /\ model_url' = Format(base_url, Filenames[model])
    /\ dl' = "urlopen"
    /\ UNCHANGED <<base_url, model, disk, disk0, ops>>
    /\ UNCHANGED server_frame

\* Line 83 raises KeyError: model_url is not assigned.
FormatKeyError ==
    /\ dl = "try"
    /\ FormatRaises(base_url)
    /\ dl' = "except"
    /\ UNCHANGED <<base_url, model_url, model, disk, disk0, ops>>
    /\ UNCHANGED server_frame

\* Line 85: urlopen raises (no network, HTTP error); no file is created.
UrlopenRaises ==
    /\ dl = "urlopen"
    /\ ops' = Logged(model, "fetch")
    /\ dl' = "except"
    /\ UNCHANGED <<base_url, model_url, model, disk, disk0>>
    /\ UNCHANGED server_frame

\* Lines 85-88: the response is copied into the file, whatever it is.
Download ==
    /\ dl = "urlopen"
    /\ \E content \in Contents : disk' = [disk EXCEPT ![model] = content]
    /\ ops' = Logged(model, "fetch")
    /\ dl' = "verify"
    /\ UNCHANGED <<base_url, model_url, model, disk0>>
    /\ UNCHANGED server_frame

\* Lines 85-88: the file is opened for writing and the copy raises midway.
DownloadInterrupted ==
    /\ dl = "urlopen"
    /\ \E content \in Contents : disk' = [disk EXCEPT ![model] = content]
    /\ ops' = Logged(model, "fetch")
    /\ dl' = "except"
    /\ UNCHANGED <<base_url, model_url, model, disk0>>
    /\ UNCHANGED server_frame

\* Lines 92-97: the downloaded file is verified, and removed if invalid.
Verify ==
    /\ dl = "verify"
    /\ IF is_valid_file(disk[model])
       THEN UNCHANGED <<disk, ops>>
       ELSE disk' = Unlinked(model) /\ ops' = Logged(model, "unlink")
    /\ NextModel
    /\ UNCHANGED <<base_url, model_url, disk0>>
    /\ UNCHANGED server_frame

\* Lines 98-105: the failure is logged with the URL and the incomplete file
\* is removed.
HandleFailure ==
    /\ dl = "except"
    /\ model_url # Unbound
    /\ IF disk[model].exists
       THEN disk' = Unlinked(model) /\ ops' = Logged(model, "unlink")
       ELSE UNCHANGED <<disk, ops>>
    /\ NextModel
    /\ UNCHANGED <<base_url, model_url, disk0>>
    /\ UNCHANGED server_frame

\* Line 102 reads model_url, which line 83 never assigned: UnboundLocalError
\* is raised inside the except block and leaves ensure_model_exists.
UnboundLocalError ==
    /\ dl = "except"
    /\ model_url = Unbound
    /\ dl' = "raised"
    /\ UNCHANGED <<base_url, model_url, model, disk, disk0, ops>>
    /\ UNCHANGED server_frame

\* ensure_model_exists(args.model_dir, args.url), line 132: any directory
\* content, any --url.
InitDownload ==
    /\ cli_args = [auto_punctuation |-> <<".", "?", "!">>,
                   samples_per_chunk |-> MaxSamplesPerChunk]
    /\ HandlersReady
    /\ base_url \in UrlTemplates
    /\ model_url = Unbound
    /\ model = 1
    /\ disk \in [ModelFiles -> DiskValues]
    /\ disk0 = disk
    /\ ops = [f \in ModelFiles |-> <<>>]
    /\ dl = "check"

NextDownload ==
    \/ FileIsValid
    \/ RemoveInvalid
    \/ FormatUrl
    \/ FormatKeyError
    \/ UrlopenRaises
    \/ Download
    \/ DownloadInterrupted
    \/ Verify
    \/ HandleFailure
    \/ UnboundLocalError

SpecDownload == InitDownload /\ [][NextDownload]_vars

\* ---------------------------------------------------------- the normalizer
\* handle_event lines 84-98 on every short text, under each punctuation set.
InitNormalize ==
    /\ cli_args \in [auto_punctuation : NormalizePunctuationValues,
                     samples_per_chunk : {MaxSamplesPerChunk}]
    /\ HandlersReady
    /\ ModelsInstalled

NextNormalize ==
    \E s \in Sessions : \E raw_text \in TextsUpTo(MaxTextLen) : Synthesize(s, raw_text)

SpecNormalize == InitNormalize /\ [][NextNormalize]_vars

\* ------------------------------------------------------- reading the log
\* The events written to session s's connection for its r-th event.
ReqEvents(s, r) == SelectSeq(conn[s], LAMBDA e : e.req = r)

\* AudioStart, AudioChunk*, AudioStop
IsAudioResponse(ev) ==
    /\ Len(ev) >= 2
    /\ ev[1].type = "audio-start"
    /\ ev[Len(ev)].type = "audio-stop"
    /\ \A j \in 2..(Len(ev) - 1) : ev[j].type = "audio-chunk"

\* A prefix of AudioStart, AudioChunk*, AudioStop
IsAudioResponsePrefix(ev) ==
    \/ ev = <<>>
    \/ /\ ev[1].type = "audio-start"
       /\ \A j \in 2..Len(ev) :
            \/ ev[j].type = "audio-chunk"
            \/ ev[j].type = "audio-stop" /\ j = Len(ev)

\* The payloads of the AudioChunk events of a response, in emission order.
ChunkPayloads(ev) ==
    LET chunks == SelectSeq(ev, LAMBDA e : e.type = "audio-chunk")
    IN  [j \in 1..Len(chunks) |-> chunks[j].audio]

RECURSIVE Concat(_)
Concat(seqs) == IF seqs = <<>> THEN <<>> ELSE Head(seqs) \o Concat(Tail(seqs))

\* Session s is handling, or has last handled, a Synthesize event.
IsSynthesize(s) == event[s].type = "synthesize"

\* handle_event has returned for session s's latest event.
Returned(s) == result[s] = "true"

\* The latest request of s is a Synthesize whose synthesis succeeded and whose
\* handle_event call has returned.
Answered(s) == IsSynthesize(s) /\ Returned(s) /\ caught[s] = NoException

\* -------------------------------------------------------------------- C1
\* C1 as stated: once handle_event has returned for a Synthesize event, the
\* events written for it are exactly AudioStart, AudioChunk*, AudioStop.
C1_EveryRequestFramed ==
    \A s \in Sessions :
        IsSynthesize(s) /\ Returned(s) => IsAudioResponse(ReqEvents(s, nreq[s]))

\* C1 as amended: the events written for a Synthesize request always form a
\* prefix of AudioStart, AudioChunk*, AudioStop (no chunk before the start,
\* nothing after the stop); the sequence is the complete one once handle_event
\* has returned after a successful synthesis, and is empty when synthesis
\* failed; nothing is added to a request's events after a later event arrived.
C1_FramedUnlessDropped ==
    \A s \in Sessions :
        /\ IsSynthesize(s) =>
             LET ev == ReqEvents(s, nreq[s])
             IN  /\ IsAudioResponsePrefix(ev)
                 /\ Answered(s) => IsAudioResponse(ev)
                 /\ caught[s] # NoException => ev = <<>>
        /\ \A r \in 1..(nreq[s] - 1) :
             LET ev == ReqEvents(s, r)
             IN  \/ ev = <<>> /\ outcomes[s][r] \in {"ignored", "dropped"}
                 \/ ev = <<Info(r)>> /\ outcomes[s][r] = "info"
                 \/ IsAudioResponse(ev) /\ outcomes[s][r] = "audio"

\* A Synthesize that was answered with chunks, after an earlier one on the same
\* session was dropped.
C1_Witness ==
    \E s \in Sessions :
        /\ Answered(s)
        /\ Len(ReqEvents(s, nreq[s])) >= 4
        /\ \E r \in 1..(nreq[s] - 1) : outcomes[s][r] = "dropped"

\* -------------------------------------------------------------------- C2
\* C2: for a waveform of L bytes and a chunk size C > 0 the framer writes
\* n = ceil(L / C) chunks; all but the last hold C bytes, the last holds
\* L - (n-1)*C bytes, which is in 1..C; n = 0 when L = 0; the payloads
\* concatenated in emission order are the waveform's bytes.
C2_ChunkFraming ==
    \A s \in Sessions :
        Answered(s) /\ bytes_per_chunk(s) > 0 =>
            LET chunks == ChunkPayloads(ReqEvents(s, nreq[s]))
                n == Len(chunks)
                L == Len(audio[s].raw_data)
                C == bytes_per_chunk(s)
            IN  /\ n * C >= L
                /\ (n - 1) * C < L
                /\ (L = 0) => (n = 0)
                /\ \A j \in 1..(n - 1) : Len(chunks[j]) = C
                /\ n >= 1 => /\ Len(chunks[n]) = L - (n - 1) * C
                             /\ Len(chunks[n]) \in 1..C
                /\ Concat(chunks) = audio[s].raw_data

\* A response of three chunks whose last one is short (10 bytes in chunks of 4:
\* 4, 4, 2 -- the shape of 5000 bytes in chunks of 2048).
C2_Witness ==
    \E s \in Sessions :
        /\ Answered(s)
        /\ bytes_per_chunk(s) = 4
        /\ Len(audio[s].raw_data) = 10
        /\ LET chunks == ChunkPayloads(ReqEvents(s, nreq[s]))
           IN  Len(chunks) = 3 /\ Len(chunks[3]) = 2

\* -------------------------------------------------------------------- C3
\* C3: when the engine raises for a sentence the handler writes nothing for
\* that request and the connection stays open, and a later Synthesize on the
\* same session whose synthesis succeeds gets a complete AudioStart,
\* AudioChunk*, AudioStop response from its handle_event call.
C3_DroppedThenServed ==
    \A s \in Sessions :
        /\ caught[s] # NoException =>
             /\ ReqEvents(s, nreq[s]) = <<>>
             /\ Returned(s)
             /\ pc[s] = "ready"
        /\ ( /\ \E r \in 1..(nreq[s] - 1) : outcomes[s][r] = "dropped"
             /\ IsSynthesize(s)
             /\ caught[s] = NoException
             /\ result[s] # "none" )
           => IsAudioResponse(ReqEvents(s, nreq[s]))

\* -------------------------------------------------------------------- C4
\* The latest handle_event call of s is over: it answered, or dropped the request.
PreviousOver(s) ==
    /\ pc[s] = "ready"
    /\ Returned(s)
    /\ LET ev == ReqEvents(s, nreq[s])
       IN  \/ ev = <<>>
           \/ ev = <<Info(nreq[s])>>
           \/ IsAudioResponse(ev)

\* C4: a session takes its next event only when its previous handle_event call
\* is over (AudioStop written, or the request dropped), and the events of two
\* requests are never interleaved on one connection.
C4_RequestsSerialized ==
    /\ [][\A s \in Sessions :
            nreq'[s] # nreq[s] => (nreq[s] = 0 \/ PreviousOver(s))]_vars
    /\ [](\A s \in Sessions :
            \A j \in 1..(Len(conn[s]) - 1) : conn[s][j].req <= conn[s][j + 1].req)

\* A connection that carries a complete audio response followed by events of
\* the session's next request.
C4_Witness ==
    \E s \in Sessions :
        /\ nreq[s] = 2
        /\ outcomes[s][1] = "audio"
        /\ pc[s] = "chunks"
        /\ Len(ReqEvents(s, 2)) >= 2

\* -------------------------------------------------------------------- C5
\* The sessions whose run_tts call is in flight.
InFlight == {s \in Sessions : pc[s] = "engine"}

\* C5: at most one run_tts call is in flight at any time, whatever the
\* interleaving of the sessions.
C5_SingleFlight == Cardinality(InFlight) <= 1

\* One session is inside run_tts while another session is in the middle of
\* its own Synthesize request.
C5_Witness ==
    \E s, t \in Sessions :
        /\ s # t
        /\ pc[s] = "engine"
        /\ pc[t] = "chunks"
        /\ sentences[t] # <<>>

\* -------------------------------------------------------------------- C6
\* C6: while one session is inside run_tts, an event delivered to another
\* session that awaits one can be handled and answered.
C6_OthersServedDuringSynthesis ==
    \A s, t \in Sessions :
        (s # t /\ pc[s] = "engine" /\ pc[t] = "ready" /\ delivered < MaxEvents)
            => ENABLED Describe(t)

\* -------------------------------------------------------------------- C7
\* s1, pause, s2, pause, ..., sn as bytes: 2n-1 pieces, the odd ones speech.
ExpectedWaveform(sents) ==
    Concat([j \in 1..(2 * Len(sents) - 1) |->
               IF j % 2 = 1
               THEN VoiceBytes(sents[(j + 1) \div 2])
               ELSE Repeat(0, PauseFrames * EngineFormat.width * EngineFormat.channels)])

\* handle_tts_request has returned a waveform for a request with sentences.
Synthesized(s) ==
    /\ IsSynthesize(s)
    /\ sentences[s] # <<>>
    /\ caught[s] = NoException
    /\ pc[s] \notin {"tts", "engine"}

\* C7: the engine is called once per sentence, in segmentation order, and the
\* waveform returned is s1, pause, s2, ..., sn with exactly n-1 pauses.
C7_SentencesInOrder ==
    \A s \in Sessions :
        /\ IsSynthesize(s) =>
             /\ k[s] <= Len(sentences[s])
             /\ calls[s] = SubSeq(sentences[s], 1, k[s])
        /\ Synthesized(s) =>
             /\ calls[s] = sentences[s]
             /\ audio[s].raw_data = ExpectedWaveform(sentences[s])
             /\ audio[s].fmt = EngineFormat

\* A request of three sentences whose waveform has been returned.
C7_Witness ==
    \E s \in Sessions : Synthesized(s) /\ Len(sentences[s]) = 3 /\ pc[s] = "start"

C9_ChunkSizePositive ==
    \A s \in Sessions :
        /\ pc[s] = "chunks" => bytes_per_chunk(s) > 0
        /\ pc[s] # "crashed"

\* ------------------------------------------------------------------- C10
\* C10: every handle_event call returns True; no exception leaves it and the
\* session goes on.
C10_AlwaysReturnsTrue ==
    \A s \in Sessions : result[s] # "raised" /\ pc[s] # "crashed"

\* ------------------------------------------------------------------- C11
\* C11: a Describe event is answered with exactly one Info event and nothing
\* else; the connection stays open, no engine call is made and no audio event
\* is written for it.
C11_DescribeGetsOneInfo ==
    \A s \in Sessions :
        event[s] = DescribeEvent =>
            /\ ReqEvents(s, nreq[s]) = <<Info(nreq[s])>>
            /\ Returned(s)
            /\ pc[s] = "ready"
            /\ transport[s] = "open"
            /\ calls[s] = <<>>
            /\ audio[s] = NoAudio
            /\ outcomes[s][nreq[s]] = "info"

\* A Describe answered on a connection that already carries an audio response.
C11_Witness ==
    \E s \in Sessions :
        /\ event[s] = DescribeEvent
        /\ nreq[s] = 2
        /\ outcomes[s][1] = "audio"

\* ------------------------------------------------------------------- C12
\* C12: the step that handles an event that is neither Describe nor Synthesize
\* writes nothing to any connection, makes no engine call, leaves the session's
\* configuration, Info event and position unchanged and keeps the connection
\* open (handle_event returns True).
C12_UnexpectedIgnored ==
    [][\A s \in Sessions :
          (nreq'[s] = nreq[s] + 1 /\ event'[s] = OtherEvent) =>
              /\ conn' = conn
              /\ calls'[s] = <<>>
              /\ pc' = pc
              /\ pc'[s] = "ready"
              /\ loop' = loop
              /\ cli_args' = cli_args
              /\ wyoming_info_event' = wyoming_info_event
              /\ transport' = transport
              /\ result'[s] = "true"]_vars

\* An unrecognized event was ignored on a connection that already carries a
\* response.
C12_Witness ==
    \E s \in Sessions :
        /\ event[s] = OtherEvent
        /\ nreq[s] = 2
        /\ conn[s] # <<>>
        /\ ReqEvents(s, 2) = <<>>
        /\ pc[s] = "ready"

\* ------------------------------------------------------------------- C14
\* C14: a Synthesize whose text is empty or whitespace-only normalizes to the
\* empty text, makes no engine call, and is answered with one AudioStart, no
\* AudioChunk and one AudioStop.
C14_EmptyTextZeroDuration ==
    \A s \in Sessions :
        (IsSynthesize(s) /\ Strip(event[s].text) = <<>>) =>
            /\ text[s] = <<>>
            /\ calls[s] = <<>>
            /\ result[s] # "none" =>
                 ReqEvents(s, nreq[s]) =
                     <<AudioStart(nreq[s], SilentFormat), AudioStop(nreq[s])>>

\* ------------------------------------------------------------------- C17
\* C17: no step changes a handler's Info event or the configuration, and every
\* Info event written on any connection carries the descriptor built at start.
C17_DescriptorReadOnly ==
    /\ [][wyoming_info_event' = wyoming_info_event /\ cli_args' = cli_args]_vars
    /\ [](\A s \in Sessions :
            /\ wyoming_info_event[s] = WyomingInfo
            /\ \A j \in 1..Len(conn[s]) :
                 conn[s][j].type = "info" => conn[s][j].data = WyomingInfo)

\* A Describe answered after a Synthesize was dropped on the same session.
C17_Witness ==
    \E s \in Sessions :
        /\ outcomes[s] = <<"dropped", "info">>
        /\ ReqEvents(s, 2) = <<Info(2)>>

\* ------------------------------------------------------------------- C19
\* C19: no handle_event call for a Synthesize ends with an open audio stream:
\* when the call is over, an AudioStart it wrote is followed by its AudioStop,
\* and only a request whose synthesis failed has no AudioStop at all.
C19_StartedStreamsEnd ==
    \A s \in Sessions :
        (IsSynthesize(s) /\ result[s] # "none") =>
            LET ev == ReqEvents(s, nreq[s])
            IN  /\ ev # <<>> => ev[Len(ev)].type = "audio-stop"
                /\ ev = <<>> => caught[s] # NoException

\* ------------------------------------------------------------------- C13
\* The request text without its leading and trailing whitespace, every newline
\* replaced by one space.
JoinedTrimmed(raw) ==
    LET inner == {j \in 1..Len(raw) : raw[j] \notin Whitespace}
    IN  IF inner = {} THEN <<>>
        ELSE LET lo == CHOOSE j \in inner : \A m \in inner : j <= m
                 hi == CHOOSE j \in inner : \A m \in inner : j >= m
             IN  [j \in 1..(hi - lo + 1) |->
                     IF raw[lo + j - 1] = "\n" THEN " " ELSE raw[lo + j - 1]]

\* The text ends with one of the characters of p.
EndsWithOneOf(t, p) == t # <<>> /\ \E j \in 1..Len(p) : t[Len(t)] = p[j]

\* C13 as stated: for every non-empty request text the normalized text ends
\* with a character of the configured auto-punctuation set.
C13_AlwaysPunctuated ==
    \A s \in Sessions :
        (IsSynthesize(s) /\ event[s].text # <<>>) =>
            EndsWithOneOf(text[s], cli_args.auto_punctuation)

\* C13 as amended: when the joined, trimmed text is non-empty and the
\* auto-punctuation set is non-empty, the normalized text ends with a character
\* of the set: the first character of the set is appended unless the text
\* already ends with one of them, in which case it is left unchanged.  When the
\* set is empty, or the text is empty or whitespace-only, nothing is appended.
C13_PunctuatedWhenNonEmpty ==
    \A s \in Sessions :
        IsSynthesize(s) =>
            LET J == JoinedTrimmed(event[s].text)
                p == cli_args.auto_punctuation
            IN  IF J # <<>> /\ p # <<>>
                THEN /\ EndsWithOneOf(text[s], p)
                     /\ text[s] = IF EndsWithOneOf(J, p) THEN J ELSE Append(J, p[1])
                ELSE text[s] = J

\* Two lines joined and closed with the first character of the set "?.", and a
\* text left alone because it ends with the set's second character.
C13_Witness ==
    /\ cli_args.auto_punctuation = <<"?", ".">>
    /\ \E s \in Sessions :
        \/ /\ event[s] = SynthesizeEvent(<<"a", "\n", "a">>)
           /\ text[s] = <<"a", " ", "a", "?">>
        \/ /\ event[s] = SynthesizeEvent(<<" ", "a", ".">>)
           /\ text[s] = <<"a", ".">>

\* ------------------------------------------------------------------- C15
\* C15: once the transport of a session is closed, no further engine call is
\* made for the remaining sentences of its request.
C15_AbandonOnClose ==
    [][\A s \in Sessions :
          transport[s] = "closed" => Len(calls'[s]) <= Len(calls[s])]_vars

\* ------------------------------------------------------------- C16, C18
Over == dl \in {"returned", "raised"}

Fetches(f) == Len(SelectSeq(ops[f], LAMBDA op : op = "fetch"))

\* C16: when the run is over, a file that was valid at its start has seen no
\* unlink and no fetch and is what it was, and a file that was of sufficient
\* size with the wrong checksum has been deleted and then fetched.
C16_IdempotentAndRepairing ==
    Over =>
        \A f \in ModelFiles :
            /\ is_valid_file(disk0[f]) => ops[f] = <<>> /\ disk[f] = disk0[f]
            /\ (disk0[f].exists /\ disk0[f].size >= MinFileSize /\ disk0[f].md5 # "expected")
                  => /\ Len(ops[f]) >= 2
                     /\ ops[f][1] = "unlink"
                     /\ ops[f][2] = "fetch"

\* C18: when the run is over, every model file has been checked, every file
\* on disk is valid, and no file was fetched more than once.
C18_AllCheckedAllValid ==
    Over =>
        /\ model = NumModelFiles + 1
        /\ \A f \in ModelFiles :
              /\ disk[f].exists => is_valid_file(disk[f])
              /\ Fetches(f) <= 1

====
